---- MODULE Spec2Model ----
(***************************************************************************)
(* Model of the EmailSummarizer service: the batch pipeline of main.py     *)
(* (auto_summarize_job, process_unread_emails), the single-message handler *)
(* summarize_and_store, the mailbox gateway of gmail_utils.py, the ledger  *)
(* writer of sheets_utils.py, summarize_email of summarizer.py, and the    *)
(* scheduler set up by lifespan.                                           *)
(*                                                                         *)
(* Threads: the APScheduler thread pool runs auto_summarize_job on a       *)
(* worker thread; every request handler is an `async def` without an await *)
(* and so runs to completion on the one event-loop thread ("loop").  A     *)
(* step of the model is one collaborator call (Gmail, Sheets, Groq).       *)
(***************************************************************************)
EXTENDS Integers, Sequences, FiniteSets, TLC

(* ---------------- bounds of the model ---------------- *)
MaxMsgs == 2
MaxRuns == 2

(* ---------------- program constants ---------------- *)
max_results == 10
max_instances == 1

MsgIds == 1..MaxMsgs
Workers == {"w1", "w2"}
Loop == "loop"
Procs == Workers \cup {Loop}

VARIABLES
    unread,             \* message ids carrying the UNREAD label
    narrived,           \* messages 1..narrived exist in the mailbox
    sheet,              \* rows of the spreadsheet, in order
    run,                \* per thread: the pipeline invocation it executes
    nruns,              \* invocations started so far
    phase,              \* lifespan: "init", "serving", "stopped"
    schedRunning,       \* scheduler.running
    DISABLE_SCHEDULER,  \* os.getenv("DISABLE_SCHEDULER") is "true"
    SPREADSHEET_ID,     \* os.getenv("SPREADSHEET_ID") is set
    jobs,               \* ids of the jobs registered with the scheduler
    shutdown_called,    \* lifespan called scheduler.shutdown()
    payload,            \* extract_body alone: the part tree it is given
    extracted           \* extract_body alone: what it returned

\* The variables of the specification of extract_body alone.
pure == <<payload, extracted>>

vars == <<unread, narrived, sheet, run, nruns, phase, schedRunning,
          DISABLE_SCHEDULER, SPREADSHEET_ID, jobs, shutdown_called, pure>>

(* ---------------- strings ---------------- *)
\* A string is a sequence of characters; the fixed texts are one token each.
\* The empty string is <<>>.
ErrPrefix == <<"Error generating summary: ">>
NL == "\n"
IsSpace(c) == c \in {" ", NL}

RECURSIVE lstrip(_)
lstrip(s) == IF s # <<>> /\ IsSpace(Head(s)) THEN lstrip(Tail(s)) ELSE s

RECURSIVE rstrip(_)
rstrip(s) ==
    IF s # <<>> /\ IsSpace(s[Len(s)]) THEN rstrip(SubSeq(s, 1, Len(s) - 1)) ELSE s

strip(s) == rstrip(lstrip(s))

\* sep.join(xs)
RECURSIVE Join(_, _)
Join(xs, sep) ==
    IF xs = <<>> THEN <<>>
    ELSE IF Len(xs) = 1 THEN xs[1]
    ELSE xs[1] \o sep \o Join(Tail(xs), sep)

\* s.split(sep), sep not empty: cut at each occurrence of sep, left to right
StartsWith(s, sep) == Len(s) >= Len(sep) /\ SubSeq(s, 1, Len(sep)) = sep

RECURSIVE SplitFrom(_, _, _)
SplitFrom(s, sep, cur) ==
    IF s = <<>> THEN <<cur>>
    ELSE IF StartsWith(s, sep)
         THEN <<cur>> \o SplitFrom(SubSeq(s, Len(sep) + 1, Len(s)), sep, <<>>)
         ELSE SplitFrom(Tail(s), sep, Append(cur, Head(s)))

Split(s, sep) == SplitFrom(s, sep, <<>>)

\* s.split(): the maximal runs of non-whitespace characters
RECURSIVE WordsFrom(_, _)
WordsFrom(s, cur) ==
    IF s = <<>> THEN (IF cur = <<>> THEN <<>> ELSE <<cur>>)
    ELSE IF IsSpace(Head(s))
         THEN (IF cur = <<>> THEN <<>> ELSE <<cur>>) \o WordsFrom(Tail(s), <<>>)
         ELSE WordsFrom(Tail(s), Append(cur, Head(s)))

Words(s) == WordsFrom(s, <<>>)

(* ---------------- summarizer.py ---------------- *)
\* What the Groq call can do: return a completion text, or raise e with
\* str(e) = text (an exception may have an empty message).
GroqOutcomes ==
    { [raised |-> FALSE, text |-> <<" ", "S", " ">>],
      [raised |-> TRUE,  text |-> <<>>] }

summarize_email_mut(o) == IF o.raised THEN o.text ELSE strip(o.text)

summarize_email(o) == IF o.raised THEN ErrPrefix \o o.text ELSE strip(o.text)

(* ---------------- gmail_utils.py ---------------- *)
body_limit == 2000
Placeholder == <<"No readable content found">>

\* A part of a message payload.  hasData: part['body']['data'] is present and
\* not empty; valid: it decodes as base64 and UTF-8, to the text `data`.
Part(mimeType, hasData, valid, data, parts) ==
    [mimeType |-> mimeType, data |-> data, hasData |-> hasData, valid |-> valid,
     parts |-> parts]

\* get_body_recursive(part) with the nonlocal body passed through: the body
\* after the call and the value returned.
RECURSIVE get_body_recursive(_, _), visit_parts(_, _, _)
get_body_recursive(part, body) ==
    IF part.mimeType = "text/plain" /\ part.hasData /\ part.valid
    THEN [body |-> part.data, ret |-> TRUE]
    ELSE LET b == IF /\ part.mimeType = "text/html" /\ body = <<>>
                     /\ part.hasData /\ part.valid
                  THEN part.data ELSE body
         IN  visit_parts(part.parts, 1, b)

visit_parts(ps, k, body) ==
    IF k > Len(ps) THEN [body |-> body, ret |-> FALSE]
    ELSE LET r == get_body_recursive(ps[k], body)
         IN  IF r.ret THEN r ELSE visit_parts(ps, k + 1, r.body)

\* `' '.join(body.split())` and `body[:2000]`
clean_body(body) ==
    LET joined == Join(Words(body), <<" ">>)
    IN  IF Len(joined) <= body_limit THEN joined ELSE SubSeq(joined, 1, body_limit)

extract_body_mut(pl) ==
    LET body == get_body_recursive(pl, <<>>).body
    IN  IF body # <<>> THEN body ELSE Placeholder

extract_body(pl) ==
    LET body == get_body_recursive(pl, <<>>).body
        cleaned == IF body # <<>> THEN clean_body(body) ELSE body
    IN  IF cleaned # <<>> THEN cleaned ELSE Placeholder

\* The messages of the mailbox.  Message 1 has both headers and a
\* multipart body; message 2 has no From header, a Subject with a line break
\* in it and an HTML body; the others have no header and no body data.
MsgHeaders(id) ==
    IF id = 1 THEN <<[name |-> "From", value |-> <<"a">>],
                     [name |-> "Subject", value |-> <<"s">>]>>
    ELSE IF id = 2 THEN <<[name |-> "Subject", value |-> <<"t", NL, "u">>]>>
    ELSE <<>>

MsgPayload(id) ==
    IF id = 1
    THEN Part("multipart/alternative", FALSE, FALSE, <<>>,
              <<Part("text/html", TRUE, TRUE, <<"h">>, <<>>),
                Part("text/plain", TRUE, TRUE, <<"x", " ", NL, "y">>, <<>>)>>)
    ELSE IF id = 2 THEN Part("text/html", TRUE, TRUE, <<"h", NL, NL, "k">>, <<>>)
    ELSE Part("text/plain", FALSE, FALSE, <<>>, <<>>)

\* next((h['value'] for h in headers if h['name'] == name), default)
header_value(headers, name, default) ==
    LET hits == {k \in 1..Len(headers) : headers[k].name = name}
    IN  IF hits = {} THEN default
        ELSE headers[CHOOSE k \in hits : \A j \in hits : k <= j].value

\* The tuple (msg_id, sender, subject, body) built for a message; the model
\* keeps the id and computes the rest.
Sender(id) == header_value(MsgHeaders(id), "From", <<"Unknown">>)
Subject(id) == header_value(MsgHeaders(id), "Subject", <<"No Subject">>)
extracted_bodies == [id \in MsgIds |-> extract_body(MsgPayload(id))]

Body(id) == extracted_bodies[id]

\* senders, subjects, bodies: the lists the handlers build from the tuples
senders_of(ids) == [k \in 1..Len(ids) |-> Sender(ids[k])]
subjects_of(ids) == [k \in 1..Len(ids) |-> Subject(ids[k])]
bodies_of(ids) == [k \in 1..Len(ids) |-> Body(ids[k])]

SetMax(S) == CHOOSE m \in S : \A x \in S : x <= m

\* The provider lists unread messages newest first.
RECURSIVE ListOrder(_)
ListOrder(S) ==
    IF S = {} THEN <<>> ELSE <<SetMax(S)>> \o ListOrder(S \ {SetMax(S)})

Take(s, n) == IF Len(s) <= n THEN s ELSE SubSeq(s, 1, n)

messages_list(u, maxResults) == Take(ListOrder(u), maxResults)

Range(s) == {s[i] : i \in 1..Len(s)}

\* failAt = 0: the list call raises; failAt = k in 1..n: the get of the k-th
\* listed message raises; failAt > n: no call raises.
fetch_unread_emails_mut(u, failAt) ==
    LET listing == messages_list(u, max_results)
    IN  IF failAt = 0 THEN <<>>
        ELSE IF listing = <<>> THEN <<>>
        ELSE IF failAt <= Len(listing) THEN SubSeq(listing, 1, failAt - 1)
        ELSE listing

fetch_unread_emails(u, failAt) ==
    LET listing == messages_list(u, max_results)
    IN  IF failAt = 0 THEN <<>>
        ELSE IF listing = <<>> THEN <<>>
        ELSE IF failAt <= Len(listing) THEN <<>>
        ELSE listing

\* A collaborator call in a run's trace.  arg: the id of a get or a modify,
\* the ids returned by a list, what a header get found (0 nothing, 1 values)
\* or the HTTP status of a failed Sheets call.
Call(op, arg, ok) == [op |-> op, arg |-> arg, ok |-> ok]

\* The calls fetch_unread_emails makes, for the run's trace.

RECURSIVE GetCalls(_, _, _)
GetCalls(listing, k, failAt) ==
    IF k > Len(listing) \/ k > failAt THEN <<>>
    ELSE <<Call("get", listing[k], k # failAt)>> \o GetCalls(listing, k + 1, failAt)

fetch_calls(u, failAt) ==
    LET listing == messages_list(u, max_results)
    IN  <<Call("list", IF failAt = 0 THEN <<>> ELSE listing, failAt # 0)>> \o
        (IF failAt = 0 THEN <<>> ELSE GetCalls(listing, 1, failAt))

(* ---------------- sheets_utils.py ---------------- *)
\* A row: its five cells, and for the claims the ids of the messages it was
\* built from and the invocation that wrote it.
HeaderRow ==
    [kind |-> "header", timestamp |-> <<"Timestamp">>, senders |-> <<"Sender">>,
     subjects |-> <<"Subject">>, emails |-> <<"Email">>, summary |-> <<"Summary">>,
     ids |-> <<>>, serial |-> 0]

\* datetime.now().strftime(...), read when append_to_sheet is entered: the
\* reading of the clock by invocation `serial`.
timestamp_now(serial) == <<"now", "@", "run">> \o [k \in 1..serial |-> "+"]

DataRow_mut(args, serial, ids) ==
    [kind |-> "data", timestamp |-> timestamp_now(serial), senders |-> args.senders,
     subjects |-> args.subjects, emails |-> args.summary, summary |-> args.emails,
     ids |-> ids, serial |-> serial]

\* append_to_sheet(service, senders, subjects, emails, summary): the row
DataRow(args, serial, ids) ==
    [kind |-> "data", timestamp |-> timestamp_now(serial), senders |-> args.senders,
     subjects |-> args.subjects, emails |-> args.emails, summary |-> args.summary,
     ids |-> ids, serial |-> serial]

\* What the handlers pass to summarize_email and to append_to_sheet.
email_record(id) ==
    <<"Sender: ">> \o Sender(id) \o <<NL, "Subject: ">> \o Subject(id)
        \o <<NL, "Body: ">> \o Body(id)

SheetArgs(senders, subjects, emails, summary) ==
    [senders |-> senders, subjects |-> subjects, emails |-> emails, summary |-> summary]

\* auto_summarize_job (main.py 50-71)
auto_summarize_job_text(ids) == Join([k \in 1..Len(ids) |-> email_record(ids[k])], <<NL, NL>>)

auto_summarize_job_args(ids, summary) ==
    SheetArgs(Join(senders_of(ids), <<NL>>), Join(subjects_of(ids), <<NL>>),
              Join(bodies_of(ids), <<NL, NL>>), summary)

\* process_unread_emails (main.py 160-173)
process_unread_emails_text(ids) == Join([k \in 1..Len(ids) |-> email_record(ids[k])], <<NL, NL>>)

process_unread_emails_args_mut(ids, summary) ==
    SheetArgs(Join(senders_of(ids), <<NL>>), Join(subjects_of(ids), <<NL>>),
              Join(bodies_of(ids), <<NL>>), summary)

process_unread_emails_args(ids, summary) ==
    SheetArgs(Join(senders_of(ids), <<NL>>), Join(subjects_of(ids), <<NL>>),
              Join(bodies_of(ids), <<NL, NL>>), summary)

\* summarize_and_store (main.py 198-199)
summarize_and_store_text(ids) == email_record(ids[1])

summarize_and_store_args(ids, summary) ==
    SheetArgs(Sender(ids[1]), Subject(ids[1]), Body(ids[1]), summary)

handler_text(kind, ids) ==
    IF kind = "timer" THEN auto_summarize_job_text(ids)
    ELSE IF kind = "manual" THEN process_unread_emails_text(ids)
    ELSE summarize_and_store_text(ids)

handler_args(kind, ids, summary) ==
    IF kind = "timer" THEN auto_summarize_job_args(ids, summary)
    ELSE IF kind = "manual" THEN process_unread_emails_args(ids, summary)
    ELSE summarize_and_store_args(ids, summary)

\* HttpError.resp.status of a failed Sheets call, for the trace
StatusOf(o) == IF o = "403" THEN 403 ELSE IF o = "500" THEN 500 ELSE 0

\* `not result.get('values')` for the range A1:E1
header_missing_mut(sh) == TRUE

header_missing(sh) == sh = <<>>

\* values().append adds the row after the last row of the table.
values_append_mut(sh, row) == Append(Append(sh, row), row)

values_append(sh, row) == Append(sh, row)

\* Outcomes of a Sheets call.
SheetOutcomes == {"ok", "403", "500"}

(* ---------------- the pipeline invocation of a thread ---------------- *)
IdleRun ==
    [kind |-> "none", pc |-> "idle", emails |-> <<>>, todo |-> <<>>,
     prompt |-> <<>>, summary |-> <<>>, calls |-> <<>>, result |-> "NONE", err |-> "none",
     serial |-> 0, changed |-> FALSE, skipped |-> FALSE, phase0 |-> "none"]

\* The invocation returns or raises: the thread is free again and keeps the
\* outcome of its last invocation until it starts the next one.
MarkFailed(r) == \E i \in 1..Len(r.calls) : r.calls[i].op = "modify" /\ ~r.calls[i].ok

Finish(r, result, err) ==
    [r EXCEPT !.pc = "idle", !.result = result, !.err = err, !.skipped = FALSE,
              !.changed = IF result = "FAILED" \/ MarkFailed(r) THEN r.changed ELSE FALSE]

Trace(r, c) == [r EXCEPT !.calls = Append(r.calls, c)]

\* `if not unread_emails: return` (main.py 34-36, 146-147)
after_fetch_mut(r, emails) == [r EXCEPT !.emails = emails, !.todo = emails, !.pc = "summarize"]

after_fetch_mut2(r, emails) ==
    IF emails = <<>>
    THEN Finish([r EXCEPT !.emails = emails], "NO_MESSAGES", "none")
    ELSE [r EXCEPT !.emails = emails, !.todo = emails, !.pc = "sheet"]

after_fetch(r, emails) ==
    IF emails = <<>>
    THEN Finish([r EXCEPT !.emails = emails], "NO_MESSAGES", "none")
    ELSE [r EXCEPT !.emails = emails, !.todo = emails, !.pc = "summarize"]

\* An exception leaves append_to_sheet (sheets_utils.py 99-101) and is caught
\* by the handler's `except Exception` (main.py 78-79, 184-185, 208-210).
append_to_sheet_raise_mut(r, e) == [r EXCEPT !.pc = "mark", !.err = e]

append_to_sheet_raise_mut2(r, e) ==
    [r EXCEPT !.pc = "idle", !.result = "SUCCESS", !.err = e]

append_to_sheet_raise(r, e) == Finish(r, "FAILED", e)

HeaderError_mut(o) == IF o = "403" THEN "HttpError403" ELSE "HttpError500"

\* What the 403 of a header call is turned into (sheets_utils.py 76-79).
HeaderError(o) == IF o = "403" THEN "PermissionError" ELSE "HttpError500"

\* The data append is outside that try: its HttpError is raised as it is.
DataError(o) == IF o = "403" THEN "HttpError403" ELSE "HttpError500"

\* After append_to_sheet returns: the batch handlers go on to mark_as_read,
\* summarize_and_store returns its result.
after_append(r) ==
    IF r.kind = "latest" THEN Finish(r, "SUCCESS", "none")
    ELSE [r EXCEPT !.pc = "mark"]

\* One turn of the loop of mark_as_read (gmail_utils.py 244-253): a modify
\* that raises ends the loop, the exception is logged and swallowed.
mark_as_read_step_mut(r, ok) ==
    IF Len(r.todo) = 1
    THEN Finish([r EXCEPT !.todo = <<>>], "SUCCESS", "none")
    ELSE [r EXCEPT !.todo = Tail(r.todo)]

mark_as_read_step_mut2(r, ok) ==
    IF ~ok THEN Finish([r EXCEPT !.todo = <<>>], "FAILED", "HttpError")
    ELSE IF Len(r.todo) = 1 THEN Finish([r EXCEPT !.todo = <<>>], "SUCCESS", "none")
    ELSE [r EXCEPT !.todo = Tail(r.todo)]

mark_as_read_step(r, ok) ==
    IF ~ok \/ Len(r.todo) = 1
    THEN Finish([r EXCEPT !.todo = <<>>], "SUCCESS", "none")
    ELSE [r EXCEPT !.todo = Tail(r.todo)]

(* ---------------- scheduler (APScheduler defaults) ---------------- *)
Instances == Cardinality({w \in Workers : run[w].pc # "idle"})

\* The pool hands the job to a free thread: the first one, the threads being
\* interchangeable.
FreeWorker == IF run["w1"].pc = "idle" THEN "w1" ELSE "w2"

may_submit_mut(n) == n < max_instances + 1

may_submit(n) == n < max_instances

\* `if not os.getenv("DISABLE_SCHEDULER", "").lower() == "true"`
scheduler_enabled_mut(flag) == TRUE

scheduler_enabled(flag) == ~flag

\* scheduler.add_job(..., id=..., replace_existing=True)
add_job(js, id) == js \cup {id}

JobId == "email_summarizer_job"

(* ---------------- extract_body alone: its input and output ---------------- *)
NoPayload == [mimeType |-> "none", data |-> <<>>, hasData |-> FALSE, valid |-> FALSE,
              parts |-> <<>>]
NotExtracted == [done |-> FALSE, body |-> <<>>]

(* ---------------- initial state ---------------- *)
Init ==
    /\ narrived \in 0..1
    /\ unread = 1..narrived
    /\ sheet = <<>>
    /\ run = [p \in Procs |-> IdleRun]
    /\ nruns = 0
    /\ phase = "init"
    /\ schedRunning = FALSE
    /\ DISABLE_SCHEDULER \in BOOLEAN
    /\ SPREADSHEET_ID \in BOOLEAN
    /\ jobs = {}
    /\ shutdown_called = FALSE
    /\ payload = NoPayload
    /\ extracted = NotExtracted

\* A change of the mailbox made by anyone but p is noted in every invocation
\* that has fetched its batch and has not marked all of it (history, for the claims
\* about what the next fetch returns).
Notes(r) == r.emails # <<>> /\ (r.result \in {"NONE", "FAILED"} \/ MarkFailed(r))

NoteChange(p, rn) ==
    [q \in Procs |->
       IF q # p /\ Notes(rn[q]) THEN [rn[q] EXCEPT !.changed = TRUE] ELSE rn[q]]

(* ---------------- environment ---------------- *)
Arrive ==
    /\ narrived < MaxMsgs
    /\ narrived' = narrived + 1
    /\ unread' = unread \cup {narrived + 1}
    /\ run' = NoteChange("mailbox", run)
    /\ UNCHANGED <<sheet, nruns, phase, schedRunning, DISABLE_SCHEDULER, SPREADSHEET_ID, jobs, shutdown_called, pure>>

(* ---------------- lifespan ---------------- *)
Startup ==
    /\ phase = "init"
    /\ phase' = "serving"
    /\ schedRunning' = scheduler_enabled(DISABLE_SCHEDULER)
    /\ jobs' = IF scheduler_enabled(DISABLE_SCHEDULER) THEN add_job(jobs, JobId) ELSE jobs
    /\ UNCHANGED <<unread, narrived, sheet, run, nruns, DISABLE_SCHEDULER, SPREADSHEET_ID, shutdown_called, pure>>

\* `if scheduler.running: scheduler.shutdown()`: shutdown waits for the job
\* that is executing (wait=True is the default) and returns when it is done.
Shutdown ==
    /\ phase = "serving"
    /\ run[Loop].pc = "idle"
    /\ schedRunning => Instances = 0
    /\ phase' = "stopped"
    /\ schedRunning' = FALSE
    /\ shutdown_called' = schedRunning
    /\ UNCHANGED <<unread, narrived, sheet, run, nruns, DISABLE_SCHEDULER, SPREADSHEET_ID, jobs, pure>>

(* ---------------- starting an invocation ---------------- *)
\* gmail_auth() and sheets_auth() open the handler; either may raise.
Begin(kind, authOk) ==
    LET r == [IdleRun EXCEPT !.kind = kind, !.serial = nruns + 1, !.phase0 = phase]
    IN  IF authOk THEN [r EXCEPT !.pc = "fetch"] ELSE Finish(r, "FAILED", "auth")

\* An interval tick: the executor runs the job on a free worker unless
\* max_instances of it are running, and then the tick is dropped.
TickRun ==
    /\ schedRunning
    /\ JobId \in jobs
    /\ nruns < MaxRuns
    /\ may_submit(Instances)
    /\ \E authOk \in BOOLEAN :
        run' = [run EXCEPT ![FreeWorker] = Begin("timer", authOk)]
    /\ nruns' = nruns + 1
    /\ UNCHANGED <<unread, narrived, sheet, phase, schedRunning, DISABLE_SCHEDULER, SPREADSHEET_ID, jobs, shutdown_called, pure>>

TickSkip ==
    /\ schedRunning
    /\ JobId \in jobs
    /\ ~may_submit(Instances)
    /\ run' = [w \in Procs |->
                 IF w \in Workers /\ run[w].pc # "idle"
                 THEN [run[w] EXCEPT !.skipped = TRUE] ELSE run[w]]
    /\ UNCHANGED <<unread, narrived, sheet, nruns, phase, schedRunning, DISABLE_SCHEDULER, SPREADSHEET_ID, jobs, shutdown_called, pure>>

\* GET /process-unread-emails and GET /summarize-latest
Request ==
    /\ phase = "serving"
    /\ nruns < MaxRuns
    /\ run[Loop].pc = "idle"
    /\ \E kind \in {"manual", "latest"}, authOk \in BOOLEAN :
        run' = [run EXCEPT ![Loop] = Begin(kind, authOk)]
    /\ nruns' = nruns + 1
    /\ UNCHANGED <<unread, narrived, sheet, phase, schedRunning, DISABLE_SCHEDULER, SPREADSHEET_ID, jobs, shutdown_called, pure>>

(* ---------------- the batch pipeline, step by step ---------------- *)
\* fetch_unread_emails(gmail_service): the list call and the get calls read
\* the mailbox and change nothing, so they are one step.
Fetch(p) ==
    /\ run[p].pc = "fetch"
    /\ run[p].kind \in {"timer", "manual"}
    /\ \E failAt \in 0..(Len(messages_list(unread, max_results)) + 1) :
        run' = [run EXCEPT ![p] =
                  after_fetch([run[p] EXCEPT !.calls = fetch_calls(unread, failAt),
                                             !.changed = FALSE],
                              fetch_unread_emails(unread, failAt))]
    /\ UNCHANGED <<unread, narrived, sheet, nruns, phase, schedRunning, DISABLE_SCHEDULER, SPREADSHEET_ID, jobs, shutdown_called, pure>>

\* summary = summarize_email(combined_text)
Summarize(p) ==
    /\ run[p].pc = "summarize"
    /\ \E o \in GroqOutcomes :
        run' = [run EXCEPT ![p] =
                  [Trace(run[p], Call("summarize", 0, ~o.raised))
                     EXCEPT !.prompt = handler_text(run[p].kind, run[p].emails),
                            !.summary = summarize_email(o), !.pc = "sheet"]]
    /\ UNCHANGED <<unread, narrived, sheet, nruns, phase, schedRunning, DISABLE_SCHEDULER, SPREADSHEET_ID, jobs, shutdown_called, pure>>

\* append_to_sheet, up to the header check: the SPREADSHEET_ID test, then
\* values().get of A1:E1.
HeaderCheck(p) ==
    /\ run[p].pc = "sheet"
    /\ IF ~SPREADSHEET_ID
       THEN run' = [run EXCEPT ![p] = append_to_sheet_raise(run[p], "ValueError")]
       ELSE \E o \in SheetOutcomes :
              run' = [run EXCEPT ![p] =
                        LET got == IF o # "ok" THEN StatusOf(o)
                                   ELSE IF header_missing(sheet) THEN 0 ELSE 1
                            r == Trace(run[p], Call("header_get", got, o = "ok"))
                        IN  IF o # "ok" THEN append_to_sheet_raise(r, HeaderError(o))
                            ELSE IF header_missing(sheet) THEN [r EXCEPT !.pc = "header"]
                            ELSE [r EXCEPT !.pc = "append"]]
    /\ UNCHANGED <<unread, narrived, sheet, nruns, phase, schedRunning, DISABLE_SCHEDULER, SPREADSHEET_ID, jobs, shutdown_called, pure>>

\* values().append of the header row
HeaderAppend(p) ==
    /\ run[p].pc = "header"
    /\ \E o \in SheetOutcomes :
        LET r == Trace(run[p], Call("header_append", StatusOf(o), o = "ok"))
        IN  IF o = "ok"
            THEN /\ sheet' = values_append(sheet, HeaderRow)
                 /\ run' = [run EXCEPT ![p] = [r EXCEPT !.pc = "append"]]
            ELSE /\ sheet' = sheet
                 /\ run' = [run EXCEPT ![p] = append_to_sheet_raise(r, HeaderError(o))]
    /\ UNCHANGED <<unread, narrived, nruns, phase, schedRunning, DISABLE_SCHEDULER, SPREADSHEET_ID, jobs, shutdown_called, pure>>

\* values().append of the data row
DataAppend(p) ==
    /\ run[p].pc = "append"
    /\ \E o \in SheetOutcomes :
        LET r == Trace(run[p], Call("append", StatusOf(o), o = "ok"))
        IN  IF o = "ok"
            THEN /\ sheet' = values_append(sheet,
                                DataRow(handler_args(r.kind, r.emails, r.summary),
                                        r.serial, r.emails))
                 /\ run' = [run EXCEPT ![p] = after_append(r)]
            ELSE /\ sheet' = sheet
                 /\ run' = [run EXCEPT ![p] = append_to_sheet_raise(r, DataError(o))]
    /\ UNCHANGED <<unread, narrived, nruns, phase, schedRunning, DISABLE_SCHEDULER, SPREADSHEET_ID, jobs, shutdown_called, pure>>

\* mark_as_read(gmail_service, msg_ids): one modify call of the loop
MarkRead(p) ==
    /\ run[p].pc = "mark"
    /\ run[p].todo # <<>>
    /\ \E ok \in BOOLEAN :
        LET id == Head(run[p].todo)
            r  == Trace(run[p], Call("modify", id, ok))
        IN  /\ unread' = IF ok THEN unread \ {id} ELSE unread
            /\ run' = IF ok /\ id \in unread
                      THEN NoteChange(p, [run EXCEPT ![p] = mark_as_read_step(r, ok)])
                      ELSE [run EXCEPT ![p] = mark_as_read_step(r, ok)]
    /\ UNCHANGED <<narrived, sheet, nruns, phase, schedRunning, DISABLE_SCHEDULER, SPREADSHEET_ID, jobs, shutdown_called, pure>>

(* ---------------- summarize_and_store ---------------- *)
\* fetch_latest_email, up to the get call: list with maxResults=1, then get.
\* failAt as in fetch_unread_emails.
LatestFetch(p) ==
    /\ run[p].pc = "fetch"
    /\ run[p].kind = "latest"
    /\ \E failAt \in 0..2 :
        LET listing == messages_list(unread, 1)
            calls == <<Call("list", IF failAt = 0 THEN <<>> ELSE listing, failAt # 0)>> \o
                     (IF failAt = 0 THEN <<>> ELSE GetCalls(listing, 1, failAt))
            r == [run[p] EXCEPT !.calls = calls, !.changed = FALSE]
        IN  run' = [run EXCEPT ![p] =
                      IF failAt = 0 \/ listing = <<>> \/ failAt <= Len(listing)
                      THEN Finish(r, "NO_MESSAGES", "none")
                      ELSE [r EXCEPT !.emails = listing, !.pc = "latest_modify"]]
    /\ UNCHANGED <<unread, narrived, sheet, nruns, phase, schedRunning, DISABLE_SCHEDULER, SPREADSHEET_ID, jobs, shutdown_called, pure>>

\* fetch_latest_email: the modify call that removes UNREAD (gmail_utils.py
\* 141-146); if it raises, fetch_latest_email returns (None, None, None).
LatestModify(p) ==
    /\ run[p].pc = "latest_modify"
    /\ \E ok \in BOOLEAN :
        LET id == Head(run[p].emails)
            r  == Trace(run[p], Call("modify", id, ok))
            rn == [run EXCEPT ![p] =
                     IF ok THEN [r EXCEPT !.pc = "summarize"]
                     ELSE Finish([r EXCEPT !.emails = <<>>], "NO_MESSAGES", "none")]
        IN  /\ unread' = IF ok THEN unread \ {id} ELSE unread
            /\ run' = IF ok /\ id \in unread THEN NoteChange(p, rn) ELSE rn
    /\ UNCHANGED <<narrived, sheet, nruns, phase, schedRunning, DISABLE_SCHEDULER, SPREADSHEET_ID, jobs, shutdown_called, pure>>

Step(p) ==
    \/ Fetch(p)
    \/ Summarize(p)
    \/ HeaderCheck(p)
    \/ HeaderAppend(p)
    \/ DataAppend(p)
    \/ MarkRead(p)
    \/ LatestFetch(p)
    \/ LatestModify(p)

Next ==
    \/ Arrive
    \/ Startup
    \/ Shutdown
    \/ TickRun
    \/ TickSkip
    \/ Request
    \/ \E p \in Procs : Step(p)

Spec == Init /\ [][Next]_vars

(* ---------------- extract_body alone ---------------- *)
MaxParts == 2

SeqsUpTo(S, n) == UNION {[1..k -> S] : k \in 0..n}

\* Leaves: a part without data, with data that does not decode, with text,
\* with text that is only whitespace.
Texts(mimeType) ==
    IF mimeType = "text/plain" THEN {<<"b", " ", NL, "c">>, <<" ">>}
    ELSE {<<"h">>, <<NL>>}

LeafParts ==
    {Part("text/plain", FALSE, FALSE, <<>>, <<>>)}
    \cup {Part(m, TRUE, FALSE, <<>>, <<>>) : m \in {"text/plain", "text/html"}}
    \cup UNION {{Part(m, TRUE, TRUE, t, <<>>) : t \in Texts(m)} :
                   m \in {"text/plain", "text/html"}}

Container(ps) == Part("multipart/alternative", FALSE, FALSE, <<>>, ps)

Level1 == LeafParts \cup {Container(ps) : ps \in SeqsUpTo(LeafParts, MaxParts)}

\* A payload: a leaf, a container of leaves, or a container of one or two of
\* these.
Payloads ==
    Level1 \cup {Container(<<a>>) : a \in Level1}
           \cup {Container(<<a, b>>) : a \in Level1, b \in Level1}

InitBody ==
    /\ payload \in Payloads
    /\ extracted = NotExtracted
    /\ unread = {}
    /\ narrived = 0
    /\ sheet = <<>>
    /\ run = [p \in Procs |-> IdleRun]
    /\ nruns = 0
    /\ phase = "init"
    /\ schedRunning = FALSE
    /\ DISABLE_SCHEDULER = FALSE
    /\ SPREADSHEET_ID = FALSE
    /\ jobs = {}
    /\ shutdown_called = FALSE

\* body = extract_body(msg_data['payload'])
ExtractBody ==
    /\ ~extracted.done
    /\ extracted' = [done |-> TRUE, body |-> extract_body(payload)]
    /\ UNCHANGED <<unread, narrived, sheet, run, nruns, phase, schedRunning,
                   DISABLE_SCHEDULER, SPREADSHEET_ID, jobs, shutdown_called, payload>>

NextBody == ExtractBody

SpecBody == InitBody /\ [][NextBody]_vars

(* ---------------- the service left running ---------------- *)
\* The application serves with the scheduler enabled and the sheet
\* configured, and is not shut down.  The collaborators of the first
\* MaxFailing invocations may fail as in Spec; those of every later
\* invocation, which gets the serial MaxFailing + 1, do not: the failures are
\* finitely many.
MaxFailing == 1

InitLive ==
    /\ narrived \in 0..1
    /\ unread = 1..narrived
    /\ sheet = <<>>
    /\ run = [p \in Procs |-> IdleRun]
    /\ nruns = 0
    /\ phase = "init"
    /\ schedRunning = FALSE
    /\ DISABLE_SCHEDULER = FALSE
    /\ SPREADSHEET_ID = TRUE
    /\ jobs = {}
    /\ shutdown_called = FALSE
    /\ payload = NoPayload
    /\ extracted = NotExtracted

Late(r) == r.serial > MaxFailing

AuthOutcomes == IF nruns < MaxFailing THEN BOOLEAN ELSE {TRUE}

Started == IF nruns < MaxFailing THEN nruns + 1 ELSE nruns

\* An interval tick that finds no instance of the job running
TickLive ==
    /\ schedRunning
    /\ JobId \in jobs
    /\ may_submit(Instances)
    /\ \E authOk \in AuthOutcomes :
        run' = [run EXCEPT ![FreeWorker] = Begin("timer", authOk)]
    /\ nruns' = Started
    /\ UNCHANGED <<unread, narrived, sheet, phase, schedRunning, DISABLE_SCHEDULER, SPREADSHEET_ID, jobs, shutdown_called, pure>>

\* GET /process-unread-emails and GET /summarize-latest
RequestLive ==
    /\ phase = "serving"
    /\ run[Loop].pc = "idle"
    /\ \E kind \in {"manual", "latest"}, authOk \in AuthOutcomes :
        run' = [run EXCEPT ![Loop] = Begin(kind, authOk)]
    /\ nruns' = Started
    /\ UNCHANGED <<unread, narrived, sheet, phase, schedRunning, DISABLE_SCHEDULER, SPREADSHEET_ID, jobs, shutdown_called, pure>>

\* A step of the invocation of p; no call of a late invocation fails.
StepLive(p) ==
    /\ Step(p)
    /\ Late(run[p]) => \A i \in 1..Len(run'[p].calls) : run'[p].calls[i].ok

NextLive ==
    \/ Arrive
    \/ Startup
    \/ TickLive
    \/ TickSkip
    \/ RequestLive
    \/ \E p \in Procs : StepLive(p)

\* The application starts, the interval trigger keeps firing, and a handler
\* that has started runs on: every call it makes returns.
Fairness ==
    /\ WF_vars(Startup)
    /\ WF_vars(TickLive)
    /\ \A p \in Procs : WF_vars(StepLive(p))

SpecLive == InitLive /\ [][NextLive]_vars /\ Fairness

(* ---------------- vocabulary of the claims ---------------- *)
IsBatch(r) == r.kind \in {"timer", "manual"}
Ended(r) == r.pc = "idle" /\ r.result # "NONE"

CallsOf(r, ops) == {i \in 1..Len(r.calls) : r.calls[i].op \in ops}
OkCalls(r, ops) == {i \in CallsOf(r, ops) : r.calls[i].ok}
FailedCalls(r, ops) == {i \in CallsOf(r, ops) : ~r.calls[i].ok}

LedgerOps == {"header_get", "header_append", "append"}
AppendOk(r) == OkCalls(r, {"append"}) # {}
LedgerFailed(r) == FailedCalls(r, LedgerOps) # {} \/ r.err = "ValueError"
MarkedIds(r) == {r.calls[i].arg : i \in OkCalls(r, {"modify"})}
RowsOf(r) == {k \in 1..Len(sheet) : sheet[k].kind = "data" /\ sheet[k].serial = r.serial}
HeaderRows == {k \in 1..Len(sheet) : sheet[k].kind = "header"}
InSomeRow(m) == \E k \in 1..Len(sheet) : m \in Range(sheet[k].ids)

(* ---------------- C1 ---------------- *)
\* C1: in a batch run a mark-read call is only ever issued after that run's
\* data row was appended successfully; a run whose append_to_sheet failed has
\* issued no mark-read call.
C1_MarkOnlyAfterAppend ==
    \A p \in Procs :
        LET r == run[p] IN
        IsBatch(r) =>
            /\ \A i \in CallsOf(r, {"modify"}) :
                 /\ \E j \in OkCalls(r, {"append"}) : j < i
                 /\ RowsOf(r) # {}
            /\ LedgerFailed(r) => CallsOf(r, {"modify"}) = {}

C1_Witness ==
    \E p \in Procs :
        /\ IsBatch(run[p]) /\ Ended(run[p]) /\ LedgerFailed(run[p])
        /\ run[p].emails # <<>>
        /\ CallsOf(run[p], {"modify"}) = {}

(* ---------------- C2 ---------------- *)
\* C2: a batch run whose fetch returned no message has ended as NO_MESSAGES
\* and has made no summarization call, no ledger call (header check, header
\* write, append) and no mark-read call; no row of the ledger is its own.
C2_EmptyBatchNoEffects ==
    \A p \in Procs :
        LET r == run[p] IN
        (IsBatch(r) /\ CallsOf(r, {"list"}) # {} /\ r.emails = <<>>) =>
            /\ Ended(r) /\ r.result = "NO_MESSAGES"
            /\ CallsOf(r, {"summarize", "modify"} \cup LedgerOps) = {}
            /\ RowsOf(r) = {}

C2_Witness ==
    \E p \in Procs :
        /\ IsBatch(run[p]) /\ run[p].result = "NO_MESSAGES"
        /\ OkCalls(run[p], {"list"}) # {}
        /\ sheet = <<>> /\ unread = {} /\ narrived = 0

(* ---------------- C3 ---------------- *)
\* C3: a batch run with k > 0 messages whose ledger write succeeded has
\* appended exactly one data row, built from its batch, and has attempted at
\* most k mark-read calls, each on an id of its batch.
C3_OneRowAtMostKMarks ==
    \A p \in Procs :
        LET r == run[p] IN
        (IsBatch(r) /\ r.emails # <<>> /\ AppendOk(r)) =>
            /\ Cardinality(OkCalls(r, {"append"})) = 1
            /\ Cardinality(RowsOf(r)) = 1
            /\ \A k \in RowsOf(r) : sheet[k].ids = r.emails
            /\ Cardinality(CallsOf(r, {"modify"})) <= Len(r.emails)
            /\ \A i \in CallsOf(r, {"modify"}) : r.calls[i].arg \in Range(r.emails)

C3_Witness ==
    \E p \in Procs :
        /\ IsBatch(run[p]) /\ Ended(run[p]) /\ AppendOk(run[p])
        /\ Len(run[p].emails) = 2
        /\ Cardinality(CallsOf(run[p], {"modify"})) = 2

(* ---------------- C4 ---------------- *)
\* C4: two batch invocations that are in progress at the same time have not
\* both appended a row while their batches share a message id.
C4_NoConcurrentOverlap ==
    \A p, q \in Procs :
        (p # q /\ IsBatch(run[p]) /\ IsBatch(run[q])
              /\ run[p].pc # "idle" /\ run[q].pc # "idle") =>
            ~(/\ AppendOk(run[p]) /\ AppendOk(run[q])
              /\ Range(run[p].emails) \cap Range(run[q].emails) # {})

(* ---------------- C5 ---------------- *)
\* C5: at most one timer-driven run is in progress; a tick that arrived
\* during a run was skipped: no later timer-driven run exists while the run
\* it met is still in progress.
C5_AtMostOneTimerRun ==
    /\ Instances <= 1
    /\ \A w, v \in Workers :
         (run[w].skipped /\ v # w) =>
            /\ run[w].pc # "idle"
            /\ ~(run[v].kind = "timer" /\ run[v].serial > run[w].serial)

C5_Witness ==
    \E w \in Workers : run[w].skipped /\ run[w].pc = "mark"

(* ---------------- C6 ---------------- *)
\* C6 (as claimed): a batch run that has ended marked read every id of its
\* batch or none.
C6_AllOrNone ==
    \A p \in Procs :
        (IsBatch(run[p]) /\ Ended(run[p])) =>
            \/ MarkedIds(run[p]) = {}
            \/ MarkedIds(run[p]) = Range(run[p].emails)

\* The mark-read calls of r, in order, as ids.
ModifyArgs(r) ==
    LET F[i \in 0..Len(r.calls)] ==
            IF i = 0 THEN <<>>
            ELSE IF r.calls[i].op = "modify" THEN Append(F[i - 1], r.calls[i].arg)
            ELSE F[i - 1]
    IN  F[Len(r.calls)]

\* C6 (amended): the mark-read calls of a batch run follow the batch in fetch
\* order and stop at the first one that fails, so the ids marked read are a
\* prefix of the batch: none when the ledger write failed, the whole batch
\* when the run ended without a failed mark-read call.
C6_MarkedPrefix ==
    \A p \in Procs :
        LET r == run[p]
            n == Len(ModifyArgs(r))
        IN  IsBatch(r) =>
            /\ n <= Len(r.emails)
            /\ ModifyArgs(r) = SubSeq(r.emails, 1, n)
            /\ \A i \in FailedCalls(r, {"modify"}) : i = Len(r.calls) /\ Ended(r)
            /\ LedgerFailed(r) => MarkedIds(r) = {}
            /\ (Ended(r) /\ r.result = "SUCCESS" /\ FailedCalls(r, {"modify"}) = {})
                  => MarkedIds(r) = Range(r.emails)

C6_Witness ==
    \E p \in Procs :
        /\ IsBatch(run[p]) /\ Ended(run[p])
        /\ Len(run[p].emails) = 2
        /\ MarkedIds(run[p]) = {run[p].emails[1]}
        /\ FailedCalls(run[p], {"modify"}) # {}

(* ---------------- C7 ---------------- *)
\* C7: every message whose UNREAD label the service has removed is contained
\* in a row of the ledger (no one else removes the label).
C7_NoSilentDrop ==
    \A m \in 1..narrived : m \notin unread => InSomeRow(m)

(* ---------------- C8 ---------------- *)
\* C8: when the summarization call raised, summarize_email returned a
\* non-empty error text and was called once; the row the run appends carries
\* that text as its summary, the run that appended its row ends in SUCCESS,
\* and a batch run then goes through mark_as_read as usual.
C8_SummaryFailureRecorded ==
    \A p \in Procs :
        LET r == run[p] IN
        FailedCalls(r, {"summarize"}) # {} =>
            /\ r.summary # <<>>
            /\ SubSeq(r.summary, 1, Len(ErrPrefix)) = ErrPrefix
            /\ Cardinality(CallsOf(r, {"summarize"})) = 1
            /\ \A k \in RowsOf(r) : sheet[k].summary = r.summary
            /\ AppendOk(r) => RowsOf(r) # {}
            /\ (AppendOk(r) /\ Ended(r)) => r.result = "SUCCESS"
            /\ (AppendOk(r) /\ Ended(r) /\ IsBatch(r)) =>
                  /\ CallsOf(r, {"modify"}) # {}
                  /\ FailedCalls(r, {"modify"}) = {} => MarkedIds(r) = Range(r.emails)

C8_Witness ==
    \E p \in Procs :
        /\ IsBatch(run[p]) /\ Ended(run[p]) /\ run[p].result = "SUCCESS"
        /\ FailedCalls(run[p], {"summarize"}) # {}
        /\ \E k \in RowsOf(run[p]) : sheet[k].summary = ErrPrefix
        /\ MarkedIds(run[p]) = Range(run[p].emails)

(* ---------------- C9 ---------------- *)
PermissionFailed(r) == r.err \in {"PermissionError", "HttpError403"}

\* C9: a batch run whose ledger write failed with a permission error has
\* ended FAILED with the error handed to its invoker and without a mark-read
\* call; as long as no one else has changed the mailbox since its fetch, its
\* whole batch is unread and a fetch returns the same batch again.
C9_PermissionFailureKeepsBatch ==
    \A p \in Procs :
        LET r == run[p] IN
        (IsBatch(r) /\ PermissionFailed(r)) =>
            /\ Ended(r) /\ r.result = "FAILED"
            /\ CallsOf(r, {"modify"}) = {}
            /\ RowsOf(r) = {}
            /\ ~r.changed =>
                  /\ Range(r.emails) \subseteq unread
                  /\ fetch_unread_emails(unread, Len(r.emails) + 1) = r.emails

C9_Witness ==
    \E p, q \in Procs :
        /\ p # q
        /\ IsBatch(run[p]) /\ PermissionFailed(run[p]) /\ ~run[p].changed
        /\ IsBatch(run[q]) /\ run[q].serial > run[p].serial
        /\ run[q].emails = run[p].emails /\ run[q].emails # <<>>

(* ---------------- C10 ---------------- *)
\* C10: with the scheduler disabled every append_to_sheet runs after the
\* previous one has returned; then the store, empty at first, never holds
\* more than one header row, the header is its first row, and an execution
\* is about to write the header only while the store is empty.
C10_HeaderOnce ==
    DISABLE_SCHEDULER =>
        /\ Cardinality(HeaderRows) <= 1
        /\ sheet # <<>> => sheet[1] = HeaderRow
        /\ \A p \in Procs : run[p].pc = "header" => sheet = <<>>

C10_Witness ==
    /\ DISABLE_SCHEDULER
    /\ Cardinality(HeaderRows) = 1
    /\ run[Loop].serial = 2
    /\ OkCalls(run[Loop], {"header_get"}) # {}
    /\ CallsOf(run[Loop], {"header_append"}) = {}
    /\ \E k \in 1..Len(sheet) : sheet[k].kind = "data" /\ sheet[k].serial = 1

(* ---------------- C11 ---------------- *)
\* C11: the store never holds more than one header row, in any interleaving
\* of timer and manual runs that start while it is empty.
C11_AtMostOneHeader == Cardinality(HeaderRows) <= 1

(* ---------------- C12 ---------------- *)
\* C12: splitting the senders and the subjects of a batch run's row on the
\* newline, and its bodies on the blank line, gives back the senders, the
\* subjects and the bodies of the batch, message by message.
C12_RoundTrip ==
    \A p \in Procs : \A k \in RowsOf(run[p]) :
        IsBatch(run[p]) =>
            /\ Split(sheet[k].senders, <<NL>>) = senders_of(run[p].emails)
            /\ Split(sheet[k].subjects, <<NL>>) = subjects_of(run[p].emails)
            /\ Split(sheet[k].emails, <<NL, NL>>) = bodies_of(run[p].emails)

(* ---------------- C13 ---------------- *)
\* C13: the row a batch run appends is the timestamp, the senders joined by
\* a newline, the subjects joined by a newline, the bodies joined by a blank
\* line and the summary, in fetch order; the summary is the value of the one
\* summarization call of the run, made on the combined text of its batch.
CombinedText(ids) ==
    Join([k \in 1..Len(ids) |->
            <<"Sender: ">> \o Sender(ids[k]) \o <<NL, "Subject: ">> \o Subject(ids[k])
                \o <<NL, "Body: ">> \o Body(ids[k])],
         <<NL, NL>>)

Cells(row) == <<row.timestamp, row.senders, row.subjects, row.emails, row.summary>>

C13_RowShape ==
    \A p \in Procs : \A k \in RowsOf(run[p]) :
        LET r == run[p] IN
        IsBatch(r) =>
            /\ Cells(sheet[k]) =
                 << timestamp_now(r.serial),
                    Join([i \in 1..Len(r.emails) |-> Sender(r.emails[i])], <<NL>>),
                    Join([i \in 1..Len(r.emails) |-> Subject(r.emails[i])], <<NL>>),
                    Join([i \in 1..Len(r.emails) |-> Body(r.emails[i])], <<NL, NL>>),
                    r.summary >>
            /\ sheet[k].ids = r.emails
            /\ Cardinality(CallsOf(r, {"summarize"})) = 1
            /\ r.prompt = CombinedText(r.emails)
            /\ \E o \in GroqOutcomes :
                 /\ r.summary = summarize_email(o)
                 /\ \A i \in CallsOf(r, {"summarize"}) : r.calls[i].ok = ~o.raised

C13_Witness ==
    \E p \in Procs : \E k \in RowsOf(run[p]) :
        /\ IsBatch(run[p])
        /\ Len(run[p].emails) = 2
        /\ sheet[k].summary = <<"S">>
        /\ sheet[k].senders = <<"Unknown", NL, "a">>
        /\ sheet[k].emails = <<"h", " ", "k", NL, NL, "x", " ", "y">>

(* ---------------- C14 ---------------- *)
\* C14: a timer run and a manual run that got the same responses, from the
\* authentication on, have made the same calls with the same arguments: after
\* the same calls and responses the next call is the same, neither goes on
\* where the other has ended, and when both have ended they have the same
\* batch, the same text sent to the summarizer, the same summary, the same
\* result, the same messages marked read and the same row but for its
\* timestamp.
SameCall(c, d) == c.op = d.op /\ c.arg = d.arg /\ c.ok = d.ok

Agree(a, b, n) == n <= Len(a) /\ n <= Len(b) /\ \A i \in 1..n : SameCall(a[i], b[i])

\* gmail_auth() or sheets_auth() raised: a response that is not in the trace
AuthFailed(r) == r.err = "auth"

RequestOf(c) == IF c.op \in {"get", "modify"} THEN <<c.op, c.arg>> ELSE <<c.op>>

RowCells(r) == {Tail(Cells(sheet[k])) : k \in RowsOf(r)}

C14_SamePipeline ==
    LET t == run["w1"]
        m == run[Loop]
    IN  (t.kind = "timer" /\ m.kind = "manual" /\ AuthFailed(t) = AuthFailed(m)) =>
            /\ \A n \in 0..2 * (MaxMsgs + 3) :
                 (Agree(t.calls, m.calls, n) /\ Len(t.calls) > n /\ Len(m.calls) > n)
                     => RequestOf(t.calls[n + 1]) = RequestOf(m.calls[n + 1])
            /\ (Ended(t) /\ Agree(t.calls, m.calls, Len(t.calls)))
                     => Len(m.calls) = Len(t.calls)
            /\ (Ended(m) /\ Agree(t.calls, m.calls, Len(m.calls)))
                     => Len(t.calls) = Len(m.calls)
            /\ (Ended(t) /\ Ended(m) /\ Agree(t.calls, m.calls, Len(t.calls)))
                     => /\ t.emails = m.emails
                        /\ t.prompt = m.prompt
                        /\ t.summary = m.summary
                        /\ t.result = m.result
                        /\ t.err = m.err
                        /\ MarkedIds(t) = MarkedIds(m)
                        /\ RowCells(t) = RowCells(m)

C14_Witness ==
    LET t == run["w1"]
        m == run[Loop]
    IN  /\ t.kind = "timer" /\ m.kind = "manual"
        /\ Ended(t) /\ Ended(m)
        /\ Len(t.emails) = 2
        /\ Agree(t.calls, m.calls, Len(t.calls))
        /\ RowsOf(t) # {} /\ RowsOf(m) # {}

(* ---------------- C15 ---------------- *)
\* C15: a run that appended its row has, when it ends, attempted a mark-read
\* call for every id of its batch, whichever of these calls failed.
C15_EveryIdAttempted ==
    \A p \in Procs :
        LET r == run[p] IN
        (IsBatch(r) /\ Ended(r) /\ AppendOk(r)) =>
            Range(r.emails) \subseteq {r.calls[i].arg : i \in CallsOf(r, {"modify"})}

(* ---------------- C16 ---------------- *)
\* C16: a batch run one of whose mark-read calls failed has ended with
\* SUCCESS and no error, its row is in the store, and as long as no other
\* execution has touched the mailbox every message of its batch that it did
\* not mark is unread and is returned by the next fetch.
C16_MarkFailureHarmless ==
    \A p \in Procs :
        LET r == run[p] IN
        (IsBatch(r) /\ FailedCalls(r, {"modify"}) # {}) =>
            /\ Ended(r) /\ r.result = "SUCCESS" /\ r.err = "none"
            /\ RowsOf(r) # {}
            /\ ~r.changed =>
                 \A id \in Range(r.emails) \ MarkedIds(r) :
                    /\ id \in unread
                    /\ id \in Range(fetch_unread_emails(unread,
                                 Len(messages_list(unread, max_results)) + 1))

C16_Witness ==
    \E p \in Procs :
        /\ IsBatch(run[p])
        /\ FailedCalls(run[p], {"modify"}) # {}
        /\ MarkedIds(run[p]) # {}
        /\ ~run[p].changed
        /\ Range(run[p].emails) \ MarkedIds(run[p]) # {}

(* ---------------- C17 ---------------- *)
\* C17: a timer run starts only with the scheduler enabled and while the
\* application is serving; with DISABLE_SCHEDULER true no job is registered,
\* the scheduler never runs and shutdown does not stop it; otherwise the job
\* is registered at startup, once, and the scheduler is not running after
\* shutdown, all timer runs having ended.
C17_TimerOnlyWhileEnabled ==
    /\ \A p \in Procs :
         run[p].kind = "timer" =>
            /\ ~DISABLE_SCHEDULER
            /\ run[p].phase0 = "serving"
            /\ p \in Workers
    /\ DISABLE_SCHEDULER => (~schedRunning /\ jobs = {} /\ ~shutdown_called)
    /\ (~DISABLE_SCHEDULER /\ phase # "init") => jobs = {JobId}
    /\ phase = "init" => jobs = {}
    /\ schedRunning => phase = "serving"
    /\ phase = "stopped" =>
         /\ ~schedRunning
         /\ shutdown_called = ~DISABLE_SCHEDULER
         /\ \A p \in Procs : run[p].kind = "timer" => run[p].pc = "idle"

C17_Witness ==
    /\ phase = "stopped"
    /\ shutdown_called
    /\ \E w \in Workers : run[w].kind = "timer" /\ Ended(run[w])

(* ---------------- C18 ---------------- *)
\* C18: in the trace of a batch run the fetch calls come first, then the
\* summarization call, then the ledger calls, then the mark-read calls: the
\* summarization follows a listing and gets that all succeeded, every ledger
\* call follows the summarization call, every mark-read call follows the
\* successful append of the data row.
Stage(op) ==
    IF op \in {"list", "get"} THEN 1
    ELSE IF op = "summarize" THEN 2
    ELSE IF op \in LedgerOps THEN 3
    ELSE 4

C18_StagesInOrder ==
    \A p \in Procs :
        LET r == run[p] IN
        IsBatch(r) =>
            /\ \A i, j \in 1..Len(r.calls) :
                 i < j => Stage(r.calls[i].op) <= Stage(r.calls[j].op)
            /\ \A j \in CallsOf(r, {"summarize"}) :
                 /\ \E i \in OkCalls(r, {"list"}) : i < j
                 /\ FailedCalls(r, {"list", "get"}) = {}
                 /\ Cardinality(CallsOf(r, {"get"})) = Len(r.emails)
            /\ \A j \in CallsOf(r, LedgerOps) :
                 \E i \in CallsOf(r, {"summarize"}) : i < j
            /\ \A j \in CallsOf(r, {"modify"}) :
                 \E i \in OkCalls(r, {"append"}) : i < j

C18_Witness ==
    \E p \in Procs :
        /\ IsBatch(run[p])
        /\ Len(run[p].emails) = 2
        /\ Cardinality(OkCalls(run[p], {"modify"})) = 2
        /\ OkCalls(run[p], {"header_append"}) # {}

(* ---------------- C19 ---------------- *)
\* C19: in append_to_sheet the data row is appended only after the header
\* range was read and, when it was empty, the header row was written; when
\* the header read or the header write fails no data row is appended and the
\* failure is raised, a 403 as a permission failure.
C19_HeaderGatesData ==
    \A p \in Procs :
        LET r == run[p] IN
        /\ \A j \in CallsOf(r, {"append"}) :
             \E i \in OkCalls(r, {"header_get"}) :
                /\ i < j
                /\ r.calls[i].arg = 0 =>
                     \E h \in OkCalls(r, {"header_append"}) : i < h /\ h < j
        /\ \A i \in FailedCalls(r, {"header_get", "header_append"}) :
             /\ CallsOf(r, {"append"}) = {}
             /\ RowsOf(r) = {}
             /\ Ended(r) /\ r.result = "FAILED"
             /\ r.err = IF r.calls[i].arg = 403 THEN "PermissionError" ELSE "HttpError500"

C19_Witness ==
    \E p \in Procs :
        /\ \E i \in FailedCalls(run[p], {"header_append"}) : run[p].calls[i].arg = 403
        /\ run[p].err = "PermissionError"
        /\ sheet = <<>>

(* ---------------- C20 ---------------- *)
\* The parts of a tree in depth-first order, a part before its sub-parts.
RECURSIVE PartsOf(_), PartsOfAll(_)
PartsOf(part) == <<part>> \o PartsOfAll(part.parts)

PartsOfAll(ps) == IF ps = <<>> THEN <<>> ELSE PartsOf(Head(ps)) \o PartsOfAll(Tail(ps))

\* The least of a set of positions, 0 when there is none.
First(hits) == IF hits = {} THEN 0 ELSE CHOOSE k \in hits : \A j \in hits : k <= j

PlainWithData(part) == part.mimeType = "text/plain" /\ part.hasData
HtmlWithData(part) == part.mimeType = "text/html" /\ part.hasData
PlainDecodable(part) == PlainWithData(part) /\ part.valid
HtmlDecodable(part) == HtmlWithData(part) /\ part.valid

\* The content as the body keeps it: runs of whitespace collapsed to one
\* space, none at either end, at most body_limit characters.
Content(part) ==
    LET ws == Words(part.data)
        flat == [k \in 1..(2 * Len(ws) - 1) |->
                   IF k % 2 = 1 THEN ws[(k + 1) \div 2] ELSE <<" ">>]
        RECURSIVE Cat(_)
        Cat(xs) == IF xs = <<>> THEN <<>> ELSE Head(xs) \o Cat(Tail(xs))
        text == IF ws = <<>> THEN <<>> ELSE Cat(flat)
    IN  SubSeq(text, 1, IF Len(text) <= body_limit THEN Len(text) ELSE body_limit)

\* C20 as stated: extract_body returns the content of the first plain-text
\* part, in depth-first order, that has data; when there is none, that of
\* the first HTML part that has data; when there is neither, the placeholder.
C20_FirstPlainElseHtml ==
    extracted.done =>
        LET ps == PartsOf(payload)
            p  == First({k \in 1..Len(ps) : PlainWithData(ps[k])})
            h  == First({k \in 1..Len(ps) : HtmlWithData(ps[k])})
        IN  extracted.body = IF p # 0 THEN Content(ps[p])
                             ELSE IF h # 0 THEN Content(ps[h])
                             ELSE Placeholder

\* C20: extract_body returns the content of the first plain-text part, in
\* depth-first order, whose data decodes; when there is none, that of the
\* first HTML part whose data decodes; and the placeholder when there is
\* neither or when that content is empty once its whitespace is collapsed.
C20_FirstDecodablePlainElseHtml ==
    extracted.done =>
        LET ps == PartsOf(payload)
            p  == First({k \in 1..Len(ps) : PlainDecodable(ps[k])})
            h  == First({k \in 1..Len(ps) : HtmlDecodable(ps[k])})
            chosen == IF p # 0 THEN Content(ps[p])
                      ELSE IF h # 0 THEN Content(ps[h])
                      ELSE <<>>
        IN  extracted.body = IF chosen = <<>> THEN Placeholder ELSE chosen

C20_Witness ==
    /\ extracted.done
    /\ extracted.body = <<"b", " ", "c">>
    /\ Len(payload.parts) = 2
    /\ HtmlDecodable(payload.parts[1])
    /\ Len(payload.parts[2].parts) = 2
    /\ PlainWithData(payload.parts[2].parts[1]) /\ ~payload.parts[2].parts[1].valid
    /\ payload.parts[2].parts[2].data = <<"b", " ", NL, "c">>

(* ---------------- C21 ---------------- *)
\* C21: a batch run in whose fetch the list call or a get call failed has
\* ended as a run on an empty mailbox ends: with an empty batch, the messages
\* retrieved before the failure dropped, result NO_MESSAGES and no error, no
\* call after the failed one, hence no summarization, ledger or mark-read
\* call, and no row.
C21_FetchFailureLooksEmpty ==
    \A p \in Procs :
        LET r == run[p] IN
        (IsBatch(r) /\ FailedCalls(r, {"list", "get"}) # {}) =>
            /\ Ended(r)
            /\ r.result = "NO_MESSAGES" /\ r.err = "none"
            /\ r.emails = <<>> /\ r.todo = <<>>
            /\ r.prompt = <<>> /\ r.summary = <<>>
            /\ \A i \in FailedCalls(r, {"list", "get"}) : i = Len(r.calls)
            /\ CallsOf(r, {"summarize", "modify"} \cup LedgerOps) = {}
            /\ RowsOf(r) = {}

C21_Witness ==
    \E p \in Procs :
        /\ IsBatch(run[p])
        /\ OkCalls(run[p], {"get"}) # {}
        /\ FailedCalls(run[p], {"get"}) # {}
        /\ run[p].result = "NO_MESSAGES"

(* ---------------- C22 ---------------- *)
\* C22: with the scheduler enabled, ticks that keep coming and collaborators
\* that fail only finitely often, every message that is unread at some point
\* is eventually in a row of the ledger and marked read.
C22_EventuallyProcessed ==
    \A m \in MsgIds : (m \in unread) ~> (InSomeRow(m) /\ m \notin unread)

\* The same while GET /summarize-latest is never requested.
C22_BatchPathsProcess ==
    ([](run[Loop].kind # "latest")) => C22_EventuallyProcessed

====
